---- MODULE Spec2Model ----
(***************************************************************************)
(* scripts/build_moonblade_doc.py: run `./target/debug/xan map             *)
(* --functions`, take the child's standard output as text, scan it with    *)
(* FUNCTION_RE and print the tuple of groups of every match.               *)
(*                                                                         *)
(* A text is a sequence of one-character strings.  Positions are 1-based;  *)
(* a span <<b, e>> covers the characters b .. e-1.                         *)
(***************************************************************************)
EXTENDS Integers, Sequences, FiniteSets

(***************************************************************************)
(* Characters                                                              *)
(***************************************************************************)
LowerSeq ==
  << "a", "b", "c", "d", "e", "f", "g", "h", "i", "j", "k", "l", "m",
     "n", "o", "p", "q", "r", "s", "t", "u", "v", "w", "x", "y", "z" >>

UpperSeq ==
  << "A", "B", "C", "D", "E", "F", "G", "H", "I", "J", "K", "L", "M",
     "N", "O", "P", "Q", "R", "S", "T", "U", "V", "W", "X", "Y", "Z" >>

Range(f) == { f[x] : x \in DOMAIN f }

Digits == { "0", "1", "2", "3", "4", "5", "6", "7", "8", "9" }

\* a-z and 0-9 as the ranges of a character set
AZ == Range(LowerSeq)

\* \s of a str pattern (the ASCII part of it)
Whitespace == { " ", "\t", "\n", "\r", "\f" }

\* the other case of a cased character, the character itself otherwise
SwapCase(c) ==
  IF \E i \in DOMAIN LowerSeq : LowerSeq[i] = c
    THEN UpperSeq[CHOOSE i \in DOMAIN LowerSeq : LowerSeq[i] = c]
  ELSE IF \E i \in DOMAIN UpperSeq : UpperSeq[i] = c
    THEN LowerSeq[CHOOSE i \in DOMAIN UpperSeq : UpperSeq[i] = c]
  ELSE c

(***************************************************************************)
(* The pattern, as the tree re.compile builds from it                      *)
(***************************************************************************)
\* one character out of a set
In(S) == [op |-> "in", set |-> S]

\* a literal character
Lit(c) == [op |-> "in", set |-> {c}]

\* body repeated between lo and hi times, as many as possible first;
\* hi = -1 is "no upper limit"
Repeat(lo, hi, body) == [op |-> "rep", lo |-> lo, hi |-> hi, body |-> body]

\* capturing group number n
Group(n, body) == [op |-> "grp", n |-> n, body |-> body]

\* [a-z0-9_]
NameSet == AZ \cup Digits \cup { "_" }

\* [a-z0-9=?*_<>]
ParamSet == AZ \cup Digits \cup { "=", "?", "*", "_", "<", ">" }

\* [a-z\[\]?,| ]
TypeSet == AZ \cup { "[", "]", "?", ",", "|", " " }

\* (?:[a-z0-9=?*_<>]+\s*,?\s*)*
ParamsItem ==
  << Repeat(1, -1, << In(ParamSet) >>),
     Repeat(0, -1, << In(Whitespace) >>),
     Repeat(0, 1, << Lit(",") >>),
     Repeat(0, -1, << In(Whitespace) >>) >>

FUNCTION_RE ==
  << Repeat(4, 4, << In(Whitespace) >>),
     Lit(" "), Lit("-"), Lit(" "),
     Group(1, << Repeat(1, -1, << In(NameSet) >>) >>),
     Lit("("),
     Group(2, << Repeat(0, -1, ParamsItem) >>),
     Lit(")"),
     Lit(" "), Lit("-"), Lit(">"), Lit(" "),
     Group(3, << Repeat(1, -1, << In(TypeSet) >>) >>) >>

\* re.I
IGNORECASE == TRUE

(***************************************************************************)
(* The matcher.  A backtracking matcher tries the alternatives of every    *)
(* repeat in order of preference (one more repetition before one less) and *)
(* keeps the first combination of choices that lets the whole pattern      *)
(* match.  A path through the pattern is recorded as a configuration: the  *)
(* position reached, the groups closed so far and the choices taken, each  *)
(* as its place in the order of preference.  The match is the complete     *)
(* path whose choices come first in that order.                            *)
(***************************************************************************)
NoMatch == [ok |-> FALSE]

NoGroups == [n \in 1..3 |-> << 0, 0 >>]

CharIn(c, S) == c \in S \/ (IGNORECASE /\ SwapCase(c) \in S)

\* how many characters from position p on are in S, hi at most (-1: no limit)
RunCount(s, p, S, hi) ==
  LET last == IF hi # -1 /\ p + hi - 1 < Len(s) THEN p + hi - 1 ELSE Len(s)
      stop == { q \in p..last : ~CharIn(s[q], S) } \cup { last + 1 }
  IN (CHOOSE q \in stop : \A r \in stop : q <= r) - p

\* a repeat of a one-character body
IsRepeatOne(n) == n.op = "rep" /\ Len(n.body) = 1 /\ n.body[1].op = "in"

\* the choices a come before the choices b
Before(a, b) ==
  \E i \in 1..Len(a) :
    /\ i <= Len(b)
    /\ a[i] < b[i]
    /\ \A j \in 1..(i - 1) : a[j] = b[j]

\* of the paths that reached the same place with the same groups, the one the
\* matcher finds first: what follows is the same for all of them
Preferred(C) ==
  { c \in C : \A d \in C :
      (d.pos = c.pos /\ d.caps = c.caps) => ~Before(d.rank, c.rank) }

Chose(C, k) == { [c EXCEPT !.rank = Append(@, k)] : c \in C }

RECURSIVE RunSeq(_, _, _), Step(_, _, _), RepLoop(_, _, _, _, _)
\* the nodes of a list, one after the other
RunSeq(nodes, s, C) ==
  IF C = {} \/ nodes = << >> THEN C
  ELSE RunSeq(Tail(nodes), s, Step(Head(nodes), s, C))

Step(n, s, C) ==
  CASE n.op = "in" ->
         { [c EXCEPT !.pos = @ + 1] :
             c \in { d \in C : d.pos <= Len(s) /\ CharIn(s[d.pos], n.set) } }
    [] IsRepeatOne(n) ->
         \* the whole run first, then one character less at a time
         Preferred(UNION {
           LET most == RunCount(s, c.pos, n.body[1].set, n.hi)
           IN { [c EXCEPT !.pos = @ + k, !.rank = Append(@, most - k)] :
                  k \in n.lo..most } : c \in C })
    [] n.op = "rep" /\ ~IsRepeatOne(n) ->
         Preferred(RepLoop(n, s, C, 0, {}))
    [] n.op = "grp" ->
         \* the group spans what its body matched
         { [c EXCEPT !.caps[n.n] = << @[1], c.pos >>] :
             c \in RunSeq(n.body, s,
                          { [d EXCEPT !.caps[n.n] = << d.pos, d.pos >>] :
                              d \in C }) }

\* C: the paths that went through the body `count` times; done: the paths that
\* left the repeat earlier.  Going through the body once more comes before
\* leaving; a pass through the body that matched nothing is not repeated.
RepLoop(n, s, C, count, done) ==
  IF C = {} THEN done
  ELSE RepLoop(n, s,
               IF n.hi = -1 \/ count < n.hi
                 THEN { c \in Preferred(RunSeq(n.body, s, Chose(C, 0))) :
                          \A d \in C : d.caps = c.caps => d.pos < c.pos }
                 ELSE {},
               count + 1,
               IF count >= n.lo THEN done \cup Chose(C, 1) ELSE done)

\* the match at position p, if there is one: its span and the text of its groups
MatchAt(s, p) ==
  LET ends == RunSeq(FUNCTION_RE, s,
                     { [pos |-> p, caps |-> NoGroups, rank |-> << >>] })
  IN IF ends = {} THEN NoMatch
     ELSE LET m == CHOOSE c \in ends :
                     \A d \in ends : ~Before(d.rank, c.rank)
          IN [ok |-> TRUE, start |-> p, end |-> m.pos,
              groups |-> [n \in 1..3 |->
                            SubSeq(s, m.caps[n][1], m.caps[n][2] - 1)]]

\* the search: the match at the first position from p on that has one
Search(s, p) ==
  LET found == { q \in p..(Len(s) + 1) : MatchAt(s, q).ok }
  IN IF found = {} THEN NoMatch
     ELSE MatchAt(s, CHOOSE q \in found : \A r \in found : q <= r)

\* as FindAllFrom, but the next search starts one character too far
RECURSIVE FindAllFromSkipping(_, _)
FindAllFromSkipping(s, p) ==
  LET m == Search(s, p)
  IN IF ~m.ok THEN << >>
     ELSE << [start |-> m.start, end |-> m.end, groups |-> m.groups] >>
            \o FindAllFromSkipping(s, m.end + 1)

\* findall: the matches from left to right, each search starting
\* where the last match ended (one further after an empty match)
RECURSIVE FindAllFrom(_, _)
FindAllFrom(s, p) ==
  LET m == Search(s, p)
  IN IF ~m.ok THEN << >>
     ELSE << [start |-> m.start, end |-> m.end, groups |-> m.groups] >>
            \o FindAllFrom(s, IF m.end = m.start THEN m.end + 1 ELSE m.end)


(***************************************************************************)
(* print(match): the repr of a tuple of three str                          *)
(***************************************************************************)
ReprChar(c) ==
  CASE c = "\n" -> << "\\", "n" >>
    [] c = "\t" -> << "\\", "t" >>
    [] c = "\r" -> << "\\", "r" >>
    [] c = "\f" -> << "\\", "x", "0", "c" >>
    [] OTHER -> << c >>

RECURSIVE ReprStr(_)
ReprStr(u) ==
  IF u = << >> THEN << >> ELSE ReprChar(Head(u)) \o ReprStr(Tail(u))

Repr(t) ==
  << "(", "'" >> \o ReprStr(t[1]) \o << "'", ",", " ", "'" >> \o ReprStr(t[2])
    \o << "'", ",", " ", "'" >> \o ReprStr(t[3]) \o << "'", ")" >>

(***************************************************************************)
(* What the child may write: whole lines of the listing, each write ending *)
(* with its line terminator                                                *)
(***************************************************************************)
NL == << "\n" >>

Indent4 == << " ", " ", " ", " " >>

Arrow == << " ", "-", ">", " " >>

\* <indent>- <name>(<params>) -> <type>
Entry(indent, name, params, type) ==
  indent \o << "-", " " >> \o name \o << "(" >> \o params \o << ")" >>
    \o Arrow \o type

Trim == << "t", "r", "i", "m" >>

Col == << "c", "o", "l" >>

String == << "s", "t", "r", "i", "n", "g" >>

Concat == << "c", "o", "n", "c", "a", "t" >>

ConcatParams ==
  << "c", "o", "l", "1", ",", " ", "c", "o", "l", "2", ",", " ", "*" >>

Name == << "n", "a", "m", "e" >>

Type == << "t", "y", "p", "e" >>

Params == << "p", "a", "r", "a", "m", "s" >>

\*     - trim(col) -> string
TrimLine == Entry(Indent4, Trim, Col, String)

\*     - concat(col1, col2, *) -> string
ConcatLine == Entry(Indent4, Concat, ConcatParams, String)

\*     - name() -> type
EmptyParamsLine == Entry(Indent4, Name, << >>, Type)

\*  - name(params) -> type       (one space before the dash)
ShallowLine == Entry(<< " " >>, Name, Params, Type)

\*     - Get(x,         an entry broken over two lines, in capitals
\*       I) -> Any
BrokenHead == Indent4 \o << "-", " ", "G", "e", "t", "(", "x", "," >>

BrokenTail == Indent4 \o << " ", " ", "I", ")" >> \o Arrow \o << "A", "n", "y" >>

\*     - trim(col) => string      (not the arrow of an entry)
DriftLine ==
  Indent4 \o << "-", " " >> \o Trim \o << "(" >> \o Col \o << ")" >>
    \o << " ", "=", ">", " " >> \o String

\* a run of empty lines
BlankLines == NL \o NL \o NL \o NL

\* a heading line and the entry under it
Heading == << "#", "#" >>

Section == Heading \o NL \o ConcatLine \o NL

Chunks ==
  { BlankLines,
    TrimLine \o NL,
    Section,
    EmptyParamsLine \o NL,
    ShallowLine \o NL,
    BrokenHead \o NL \o BrokenTail \o NL,
    DriftLine \o NL }

\* what the child may write to its standard error
ErrChunks == { NL \o TrimLine \o NL }

LaunchErrors == { "FileNotFoundError", "PermissionError" }

ExitCodes == { 0, 1 }

MaxWrites == 2

MaxErrWrites == 1

RECURSIVE Joined(_)
Joined(cs) == IF cs = << >> THEN << >> ELSE Head(cs) \o Joined(Tail(cs))

\* the texts the child can have written to its standard output
Outputs ==
  { Joined(cs) : cs \in UNION { [1..n -> Chunks] : n \in 0..MaxWrites } }

\* the scan of each of them, done once
ScanOf == [t \in Outputs |-> FindAllFrom(t, 1)]

\* FUNCTION_RE.findall(s)
FindAll(s) == IF s \in Outputs THEN ScanOf[s] ELSE FindAllFrom(s, 1)

(***************************************************************************)
(* The run                                                                 *)
(***************************************************************************)
VARIABLES
  pc,         \* where the script is
  error,      \* the exception that ended the script, "none" if none
  spawned,    \* how many children were started
  child,      \* "none", "running", "exited"
  childOut,   \* what the child has written to its standard output
  childErr,   \* what the child has written to its standard error
  nOut,       \* the number of writes to standard output
  nErr,       \* the number of writes to standard error
  returncode, \* the child's exit status, -1 while it has none
  FUNCTIONS,  \* the captured text
  matches,    \* the list findall returned
  idx,        \* the next element of the list the loop takes
  printed     \* the lines printed so far

vars ==
  << pc, error, spawned, child, childOut, childErr, nOut, nErr, returncode,
     FUNCTIONS, matches, idx, printed >>

childVars == << child, childOut, childErr, nOut, nErr, returncode >>

scriptVars == << pc, error, FUNCTIONS, matches, idx, printed >>

Init ==
  /\ pc = "start"
  /\ error = "none"
  /\ spawned = 0
  /\ child = "none"
  /\ childOut = << >>
  /\ childErr = << >>
  /\ nOut = 0
  /\ nErr = 0
  /\ returncode = -1
  /\ FUNCTIONS = << >>
  /\ matches = << >>
  /\ idx = 0
  /\ printed = << >>

\* subprocess.run starts the child and waits for it
Launch ==
  /\ pc = "start"
  /\ pc' = "run"
  /\ child' = "running"
  /\ spawned' = spawned + 1
  /\ UNCHANGED << error, childOut, childErr, nOut, nErr, returncode,
                  FUNCTIONS, matches, idx, printed >>

\* as LaunchFail, but the error is caught and the run goes on with no text
LaunchFailCaught(e) ==
  /\ pc = "start"
  /\ pc' = "scan"
  /\ error' = e
  /\ UNCHANGED << spawned, childVars, FUNCTIONS, matches, idx, printed >>

\* subprocess.run raises: the executable is missing or cannot be executed
LaunchFail(e) ==
  /\ pc = "start"
  /\ pc' = "failed"
  /\ error' = e
  /\ UNCHANGED << spawned, childVars, FUNCTIONS, matches, idx, printed >>

ChildWriteOut(c) ==
  /\ child = "running"
  /\ nOut < MaxWrites
  /\ childOut' = childOut \o c
  /\ nOut' = nOut + 1
  /\ UNCHANGED << scriptVars, spawned, child, childErr, nErr, returncode >>

ChildWriteErr(c) ==
  /\ child = "running"
  /\ nErr < MaxErrWrites
  /\ childErr' = childErr \o c
  /\ nErr' = nErr + 1
  /\ UNCHANGED << scriptVars, spawned, child, childOut, nOut, returncode >>

ChildExit(code) ==
  /\ child = "running"
  /\ child' = "exited"
  /\ returncode' = code
  /\ UNCHANGED << scriptVars, spawned, childOut, childErr, nOut, nErr >>

\* the CompletedProcess subprocess.run returns
Completed == [stdout |-> childOut, stderr |-> childErr, returncode |-> returncode]

\* as StdoutOf, but with standard error sent to the same pipe
StdoutAndStderr(cp) == cp.stdout \o cp.stderr

\* .stdout
StdoutOf(cp) == cp.stdout

\* as Capture, but without waiting for the child to exit
CaptureEarly ==
  /\ pc = "run"
  /\ child # "none"
  /\ FUNCTIONS' = StdoutOf(Completed)
  /\ pc' = "scan"
  /\ UNCHANGED << error, spawned, childVars, matches, idx, printed >>

\* FUNCTIONS = subprocess.run(..., text=True, capture_output=True).stdout
Capture ==
  /\ pc = "run"
  /\ child = "exited"
  /\ FUNCTIONS' = StdoutOf(Completed)
  /\ pc' = "scan"
  /\ UNCHANGED << error, spawned, childVars, matches, idx, printed >>

\* as Scan, but a text without a match is an error
ScanStrict ==
  /\ pc = "scan"
  /\ matches' = FindAll(FUNCTIONS)
  /\ idx' = 1
  /\ pc' = IF FindAll(FUNCTIONS) = << >> THEN "failed" ELSE "loop"
  /\ error' = IF FindAll(FUNCTIONS) = << >> THEN "ValueError" ELSE error
  /\ UNCHANGED << spawned, childVars, FUNCTIONS, printed >>

\* FUNCTION_RE.findall(FUNCTIONS)
Scan ==
  /\ pc = "scan"
  /\ matches' = FindAll(FUNCTIONS)
  /\ idx' = 1
  /\ pc' = "loop"
  /\ UNCHANGED << error, spawned, childVars, FUNCTIONS, printed >>

\* the tuple findall gives for a match
TupleOf(m) == m.groups

\* for match in ...: print(match)
Emit ==
  /\ pc = "loop"
  /\ idx <= Len(matches)
  /\ printed' = Append(printed, Repr(TupleOf(matches[idx])))
  /\ idx' = idx + 1
  /\ UNCHANGED << pc, error, spawned, childVars, FUNCTIONS, matches >>

\* the list is exhausted: the script ends
Finish ==
  /\ pc = "loop"
  /\ idx > Len(matches)
  /\ pc' = "done"
  /\ UNCHANGED << error, spawned, childVars, FUNCTIONS, matches, idx, printed >>

ScriptNext ==
  \/ Launch
  \/ \E e \in LaunchErrors : LaunchFail(e)
  \/ Capture
  \/ Scan
  \/ Emit
  \/ Finish

ChildNext ==
  \/ \E c \in Chunks : ChildWriteOut(c)
  \/ \E c \in ErrChunks : ChildWriteErr(c)
  \/ \E code \in ExitCodes : ChildExit(code)

Next == ScriptNext \/ ChildNext

Spec == Init /\ [][Next]_vars

\* the interpreter runs the script on: a step of the script that can be taken
\* is taken.  Nothing makes the child write or exit.
FairSpec == Spec /\ WF_vars(ScriptNext)

(***************************************************************************)
(* What the pattern accepts, stated on the text and not by running the     *)
(* matcher: four whitespace characters, " - ", a name, "(", a parameter    *)
(* list, ")", " -> " and a type.  Letters count in both cases (re.I).      *)
(***************************************************************************)
Letters == Range(LowerSeq) \cup Range(UpperSeq)

NameChars == Letters \cup Digits \cup { "_" }

ParamChars == Letters \cup Digits \cup { "=", "?", "*", "_", "<", ">" }

TypeChars == Letters \cup { "[", "]", "?", ",", "|", " " }

\* the characters x .. y-1 of s are all in S
AllIn(s, x, y, S) == \A k \in x..(y - 1) : s[k] \in S

\* x .. y-1 is a parameter list: items of parameter characters, each followed
\* by optional whitespace, at most one comma and optional whitespace again
ParamList(s, x, y) ==
  /\ AllIn(s, x, y, ParamChars \cup Whitespace \cup { "," })
  /\ x < y => s[x] \in ParamChars
  /\ \A k \in x..(y - 1) :
       s[k] = "," =>
         \E q \in x..(k - 1) :
           s[q] \in ParamChars /\ AllIn(s, q + 1, k, Whitespace)

\* name(params) -> type on x .. e-1, with "(" at a and ")" at b
BodyWith(s, x, e, a, b) ==
  /\ x < a /\ a < b /\ b + 5 < e /\ e <= Len(s) + 1
  /\ s[a] = "(" /\ s[b] = ")"
  /\ AllIn(s, x, a, NameChars)
  /\ ParamList(s, a + 1, b)
  /\ SubSeq(s, b + 1, b + 4) = Arrow
  /\ AllIn(s, b + 5, e, TypeChars)

Body(s, x, e) ==
  \E a \in (x + 1)..(e - 1) :
    s[a] = "(" /\ \E b \in (a + 1)..(e - 1) : s[b] = ")" /\ BodyWith(s, x, e, a, b)

\* the pattern's fixed start at p
Prefix(s, p) ==
  /\ p + 6 <= Len(s)
  /\ AllIn(s, p, p + 4, Whitespace)
  /\ SubSeq(s, p + 4, p + 6) = << " ", "-", " " >>

\* the characters p .. e-1 of s satisfy the pattern
Satisfies(s, p, e) == Prefix(s, p) /\ Body(s, p + 7, e)

SatisfiedAt(s, p) ==
  Prefix(s, p) /\ \E e \in (p + 8)..(Len(s) + 1) : Body(s, p + 7, e)

\* the three parts of name(params) -> type on x .. e-1
PartsOf(s, x, e) ==
  LET a == CHOOSE a \in x..e : s[a] = "(" /\ \A k \in x..(a - 1) : s[k] # "("
      b == CHOOSE b \in a..e : s[b] = ")" /\ \A k \in a..(b - 1) : s[k] # ")"
  IN << SubSeq(s, x, a - 1), SubSeq(s, a + 1, b - 1), SubSeq(s, b + 5, e - 1) >>

(***************************************************************************)
(* The lines of a text: <<from, to>> with the line on from .. to-1 and its *)
(* terminator, if it has one, at to                                        *)
(***************************************************************************)
LineSpans(s) ==
  { << from,
       CHOOSE to \in from..(Len(s) + 1) :
         /\ to = Len(s) + 1 \/ s[to] = "\n"
         /\ \A k \in from..(to - 1) : s[k] # "\n" >> :
      from \in { q \in 1..Len(s) : q = 1 \/ s[q - 1] = "\n" } }

\* an entry line whose dash comes after exactly k spaces
EntryLine(s, l, k) ==
  /\ l[1] + k + 1 <= Len(s)
  /\ AllIn(s, l[1], l[1] + k, { " " })
  /\ SubSeq(s, l[1] + k, l[1] + k + 1) = << "-", " " >>
  /\ Body(s, l[1] + k + 2, l[2])

\* a well-formed entry line:     - name(params) -> type
WellFormed(s, l) == EntryLine(s, l, 4)

\* the match k covers some of line l
Covers(m, l) == m.start < l[2] /\ l[1] < m.end

(***************************************************************************)
(* Properties                                                              *)
(***************************************************************************)
Scanned == pc \in { "loop", "done" }

WellFormedLines(s) == { l \in LineSpans(s) : WellFormed(s, l) }

\* C1: a finished run has printed exactly one tuple per well-formed entry line
\* of the captured text, and none for the other lines.
C1_OneTuplePerWellFormedLine ==
  pc = "done" =>
    /\ Len(printed) = Cardinality(WellFormedLines(FUNCTIONS))
    /\ \A k \in 1..Len(matches) :
         \E l \in WellFormedLines(FUNCTIONS) : Covers(matches[k], l)

\* C2: an entry line with fewer than four spaces before its dash is in no
\* match, whatever comes before it in the captured text.
C2_ShallowLineNeverMatches ==
  Scanned =>
    \A l \in LineSpans(FUNCTIONS) : \A i \in 0..3 :
      EntryLine(FUNCTIONS, l, i) =>
        \A k \in 1..Len(matches) : ~Covers(matches[k], l)

\* C3: the printed tuples are, in order, those of the substrings of the
\* captured text that satisfy the pattern, taken from left to right without
\* overlap: every match satisfies the pattern and is the longest that starts
\* where it starts, each starts at or after the end of the one before, no
\* position outside the matches starts a satisfying substring, and line k of
\* the output is the tuple of match k.
C3_LeftmostNonOverlapping ==
  pc = "done" =>
    /\ Len(printed) = Len(matches)
    /\ \A k \in 1..Len(matches) :
         /\ Satisfies(FUNCTIONS, matches[k].start, matches[k].end)
         /\ \A e \in (matches[k].end + 1)..(Len(FUNCTIONS) + 1) :
              ~Satisfies(FUNCTIONS, matches[k].start, e)
         /\ k > 1 => matches[k - 1].end <= matches[k].start
         /\ printed[k] = Repr(PartsOf(FUNCTIONS, matches[k].start + 7,
                                      matches[k].end))
    /\ \A p \in 1..Len(FUNCTIONS) :
         SatisfiedAt(FUNCTIONS, p) =>
           \E k \in 1..Len(matches) :
             matches[k].start <= p /\ p < matches[k].end
    /\ \A k \in 1..Len(matches) : \A p \in 1..(matches[k].start - 1) :
         SatisfiedAt(FUNCTIONS, p) =>
           \E j \in 1..(k - 1) : matches[j].start <= p /\ p < matches[j].end

C3_Witness ==
  /\ pc = "done"
  /\ Len(printed) = 2
  /\ matches[1].end = matches[2].start
  /\ 1 < matches[1].start
  /\ matches[2].end <= Len(FUNCTIONS)

\* C4: when the captured text is one well-formed entry line, a finished run
\* has printed one tuple: the line's name, the text between its parentheses
\* and its type.
C4_SingleEntryLine ==
  (pc = "done" /\ \E l \in LineSpans(FUNCTIONS) :
                    LineSpans(FUNCTIONS) = { l } /\ WellFormed(FUNCTIONS, l)) =>
    printed = << Repr(PartsOf(FUNCTIONS, 7, Len(FUNCTIONS))) >>

\* C5: every well-formed entry line with nothing between its parentheses
\* gives a tuple, whose second component is the empty string.
C5_EmptyParameterList ==
  pc = "done" =>
    \A l \in WellFormedLines(FUNCTIONS) :
      PartsOf(FUNCTIONS, l[1] + 6, l[2])[2] = << >> =>
        \E k \in 1..Len(matches) :
          /\ Covers(matches[k], l)
          /\ printed[k] = Repr(<< PartsOf(FUNCTIONS, l[1] + 6, l[2])[1], << >>,
                                  PartsOf(FUNCTIONS, l[1] + 6, l[2])[3] >>)

\* C6: when the launch fails the script is in its failure state with the
\* launch error, no child exists, nothing was captured or printed, and the
\* script takes no further step (the error is neither caught nor retried).
C6_LaunchFailure ==
  /\ error # "none" =>
       /\ error \in LaunchErrors
       /\ pc = "failed"
       /\ spawned = 0 /\ child = "none"
       /\ FUNCTIONS = << >> /\ matches = << >> /\ printed = << >>
  /\ pc = "failed" => error # "none" /\ ~ENABLED Next

C6_Witness == pc = "failed" /\ error = "FileNotFoundError"

\* what a scan of the text t prints
PrintedFor(t) == [k \in 1..Len(FindAll(t)) |-> Repr(FindAll(t)[k].groups)]

\* C7: what is printed is decided by the child's standard output alone: the
\* captured text is that output whatever the exit status and whatever was
\* written to standard error, an exit status other than 0 stops nothing, and
\* a finished run has printed the tuples of the standard output.
C7_StdoutOnly ==
  /\ pc \in { "scan", "loop", "done" } => FUNCTIONS = childOut
  /\ (pc = "run" /\ child = "exited") => ENABLED Capture
  /\ spawned = 1 => error = "none" /\ pc # "failed"
  /\ pc = "done" => printed = PrintedFor(childOut)

C7_Witness ==
  /\ pc = "done"
  /\ returncode = 1
  /\ childErr # << >>
  /\ Len(printed) = 1
  /\ Len(FindAll(childErr)) = 1

NothingSatisfies(s) == \A p \in 1..Len(s) : ~SatisfiedAt(s, p)

\* C8: when no substring of the captured text satisfies the pattern, nothing
\* is printed, no error is raised, and the loop ends at once: the script
\* finishes normally.
C8_NoMatchIsSilent ==
  (spawned = 1 /\ pc \notin { "start", "run", "scan" }
     /\ NothingSatisfies(FUNCTIONS)) =>
    /\ error = "none"
    /\ pc \in { "loop", "done" }
    /\ printed = << >>
    /\ pc = "loop" => ENABLED Finish /\ ~ENABLED Emit

C8_Witness ==
  /\ pc = "done"
  /\ FUNCTIONS = DriftLine \o NL \o BlankLines
  /\ NothingSatisfies(FUNCTIONS)
  /\ printed = << >>

\* the steps of a run, in the order of the script
Passes ==
  { << "start", "run" >>, << "start", "failed" >>, << "run", "scan" >>,
    << "scan", "loop" >>, << "loop", "done" >> }

\* C10: a run goes once through launch, capture, scan, emit and end, with one
\* child at most; nothing is printed, and the script does not end, before the
\* child has exited and all its output is captured; once the child has exited
\* the script ends, having printed every match.
C10_LinearPass ==
  /\ [](spawned <= 1)
  /\ [][pc' = pc \/ << pc, pc' >> \in Passes]_vars
  /\ []((printed # << >> \/ pc = "done") =>
          (child = "exited" /\ FUNCTIONS = childOut))
  /\ [](child = "running" => (printed = << >> /\ pc = "run"))
  /\ (child = "exited") ~> (pc = "done" /\ printed = PrintedFor(childOut))

C10_Witness == pc = "done" /\ Len(printed) = 2 /\ returncode = 0

====
